---- MODULE Spec2Model ----
(***************************************************************************)
(* Model of joa/failuredetector: the phi accrual failure detector          *)
(* (phi.go), its persistent heartbeat history (history.go) and the warning *)
(* channel handed to New by the example program.                           *)
(*                                                                         *)
(* Time.  A time.Time or time.Duration is an integer number of clock       *)
(* ticks; one millisecond is TicksPerMilli ticks, so that toMillis is a    *)
(* truncating conversion and not the identity.                             *)
(*                                                                         *)
(* Machine words.  A uint64 is a number in 0 .. Word-1 with Word =         *)
(* 2^WordBits and arithmetic modulo Word.  WordBits is far below 64 so     *)
(* that products stay inside TLC's 32-bit integers; every duration of the  *)
(* model is far below Word, which is what the code relies on for 2^64.     *)
(*                                                                         *)
(* Pointers.  A *state is the index of the snapshot in heap, the sequence  *)
(* of all snapshots ever installed, in install order.  A snapshot built by *)
(* a Heartbeat whose compare-and-swap fails is never published and is not  *)
(* given an index.  Nil (-1) is the nil pointer: an absent timestamp, an   *)
(* absent event stream.                                                    *)
(***************************************************************************)
EXTENDS Integers, Sequences, FiniteSets, TLC

\* ------------------------------------------------------------- bounds
\* Clock ticks per millisecond (the real clock has 10^6 ns per ms).
TicksPerMilli == 2
\* The clock stops advancing at this many ticks.
MaxClock == 4
\* Heartbeat invocations made in a run, by all goroutines together.
MaxBeats == 3
\* The same, in a run of the stress test, where queries run beside them,
\* and in the runs whose termination is checked.
MaxStressBeats == 2
\* Bits of the model's machine word (uint64 in the source).
WordBits == 12
\* The largest capacity of a history built on its own.
MaxSampleSize == 3
\* The histories built on their own in a run, the empty one included.
MaxHistories == 5

Word == 2 ^ WordBits

Nil == -1

Max(a, b) == IF a >= b THEN a ELSE b

\* ------------------------------------------------------------ history.go

\* newHeartbeatHistory: an empty history of the given capacity.
newHeartbeatHistory(maxSampleSize) ==
    [maxSampleSize      |-> maxSampleSize,
     intervals          |-> << >>,
     intervalSum        |-> 0,
     squaredIntervalSum |-> 0]

\* An append that drops the newest sample at capacity, not the oldest.
appendSrcDropsNewest(h) ==
    IF Len(h.intervals) < h.maxSampleSize
      THEN h.intervals
      ELSE SubSeq(h.intervals, 1, Len(h.intervals) - 1)

\* The slice that append copies: all of h.intervals below capacity, else
\* h.intervals[1:].
appendSrc(h) ==
    IF Len(h.intervals) < h.maxSampleSize
      THEN h.intervals
      ELSE SubSeq(h.intervals, 2, Len(h.intervals))

\* The interval append evicts: 0 below capacity, else h.intervals[0].
droppedInterval(h) ==
    IF Len(h.intervals) < h.maxSampleSize THEN 0 ELSE h.intervals[1]

\* An append that leaves the evicted interval in the running sums.
appendKeepsDropped(h, interval) ==
    [maxSampleSize      |-> h.maxSampleSize,
     intervals          |-> Append(appendSrc(h), interval),
     intervalSum        |-> (h.intervalSum + interval) % Word,
     squaredIntervalSum |->
         (h.squaredIntervalSum + (interval * interval)) % Word]

\* heartbeatHistory.append: a new history; the sums are uint64 arithmetic.
append(h, interval) ==
    [maxSampleSize      |-> h.maxSampleSize,
     intervals          |-> Append(appendSrc(h), interval),
     intervalSum        |-> (h.intervalSum - droppedInterval(h) + interval) % Word,
     squaredIntervalSum |->
         (h.squaredIntervalSum - (droppedInterval(h) * droppedInterval(h))
            + (interval * interval)) % Word]

\* mean() is intervalSum / len(intervals) in float64.  The model keeps the
\* exact rational: meanNum(h) / Len(h.intervals).
meanNum(h) == h.intervalSum

\* variance() is squaredIntervalSum/n - mean*mean, which is
\* varianceNum(h) / n^2 with n = len(intervals).
varianceNum(h) ==
    Len(h.intervals) * h.squaredIntervalSum - h.intervalSum * h.intervalSum

\* ------------------------------------------- heartbeatHistory in memory
\* heartbeatHistory.intervals is a slice: a length and a pointer to a
\* backing array, here an index of mem.  Every slice the code stores starts
\* at cell 0 of its array (h.intervals[1:] is only ever copied from).

\* make([]uint64, length, capacity): the new zeroed backing array.
makeArray(capacity) == [i \in 1 .. capacity |-> 0]

\* The elements of the slice sl in the memory m.
elems(m, sl) == [i \in 1 .. sl.len |-> m[sl.arr][i]]

\* The history h as the samples and sums a reader sees in the memory m.
load(m, h) ==
    [maxSampleSize      |-> h.maxSampleSize,
     intervals          |-> elems(m, h.intervals),
     intervalSum        |-> h.intervalSum,
     squaredIntervalSum |-> h.squaredIntervalSum]

\* newHeartbeatHistory with its make([]uint64, 0, maxSampleSize).
newHeartbeatHistoryIn(m, maxSampleSize) ==
    [mem |-> Append(m, makeArray(maxSampleSize)),
     h   |-> [maxSampleSize      |-> maxSampleSize,
              intervals          |-> [arr |-> Len(m) + 1, len |-> 0],
              intervalSum        |-> 0,
              squaredIntervalSum |-> 0]]

\* An append that, below capacity, writes the interval into the receiver's
\* backing array behind its last sample (what the builtin append does while
\* the capacity lasts) in place of a fresh array.
appendInShared(m, h, interval) ==
    LET v   == load(m, h)
        src == appendSrc(v)
        r   == append(v, interval)
        dst == [i \in 1 .. h.maxSampleSize |->
                  IF i <= Len(src) THEN src[i]
                  ELSE IF i = Len(src) + 1 THEN interval ELSE 0]
        shared == Len(v.intervals) < h.maxSampleSize
    IN  [mem |-> IF shared
                   THEN [m EXCEPT ![h.intervals.arr][Len(src) + 1] = interval]
                   ELSE Append(m, dst),
         h   |-> [maxSampleSize      |-> h.maxSampleSize,
                  intervals          |->
                      [arr |-> IF shared THEN h.intervals.arr ELSE Len(m) + 1,
                       len |-> Len(src) + 1],
                  intervalSum        |-> r.intervalSum,
                  squaredIntervalSum |-> r.squaredIntervalSum]]

\* heartbeatHistory.append with its memory: dst is a fresh array of capacity
\* maxSampleSize, src is copied into it and the interval stored behind it.
appendIn(m, h, interval) ==
    LET v   == load(m, h)
        src == appendSrc(v)
        r   == append(v, interval)
        dst == [i \in 1 .. h.maxSampleSize |->
                  IF i <= Len(src) THEN src[i]
                  ELSE IF i = Len(src) + 1 THEN interval ELSE 0]
    IN  [mem |-> Append(m, dst),
         h   |-> [maxSampleSize      |-> h.maxSampleSize,
                  intervals          |-> [arr |-> Len(m) + 1,
                                          len |-> Len(src) + 1],
                  intervalSum        |-> r.intervalSum,
                  squaredIntervalSum |-> r.squaredIntervalSum]]

\* ---------------------------------------------------------------- phi.go

\* toMillis: uint64(d.Seconds() * 1e3).  The conversion truncates toward
\* zero.  For a duration of -1 ms or less the float is negative and Go
\* leaves the result of the conversion to the implementation: conv is
\* "wrap" where the build converts through int64 (amd64), which yields
\* 2^64 - k, and "saturate" where it clamps to 0 (arm64).
toMillis(dur, conv) ==
    IF dur >= 0
      THEN dur \div TicksPerMilli
      ELSE IF (0 - dur) \div TicksPerMilli = 0 \/ conv = "saturate"
             THEN 0
             ELSE Word - ((0 - dur) \div TicksPerMilli)

\* initHeartbeat: the bootstrap history.
initHeartbeat(maxSampleSize, firstHeartbeatEstimate) ==
    LET firstHeartbeatEstimateMS == toMillis(firstHeartbeatEstimate, "wrap")
        stdDeviationMS == firstHeartbeatEstimateMS \div 4
    IN  append(append(newHeartbeatHistory(maxSampleSize),
                      (firstHeartbeatEstimateMS - stdDeviationMS) % Word),
               (firstHeartbeatEstimateMS + stdDeviationMS) % Word)

\* ensureValidStdDeviation: math.Max(stdDeviation, minStdDeviationMS), on
\* the square of the deviation times n^2.  A negative variance makes
\* math.Sqrt return NaN and math.Max keeps a NaN: the result stays negative,
\* the model's mark for NaN.
ensureValidStdDeviation(varNum, n, minStdDeviationMS) ==
    IF varNum < 0
      THEN varNum
      ELSE Max(varNum, n * n * minStdDeviationMS * minStdDeviationMS)

\* phi(timeDiff, mean, stdDeviation) depends on its arguments only through
\* y = (timeDiff - mean) / stdDeviation.  With all three scaled by n the
\* model keeps y exactly, as yNum / sqrt(ySqDen); ySqDen < 0 is a NaN
\* deviation.  zero marks the literal 0.0 that phiAt returns for a snapshot
\* without a timestamp.
phi(timeDiffN, meanN, stdSqN) ==
    [zero |-> FALSE, yNum |-> timeDiffN - meanN, ySqDen |-> stdSqN]

PhiZero == [zero |-> TRUE, yNum |-> 0, ySqDen |-> 1]

\* The thresholds the model constructs detectors with (8.0 in the test and
\* the example program), and the non-positive ones New must reject.
ValidThresholds == {1, 8}
InvalidThresholds == {-1, 0}

\* phi.go computes e = exp(-y*(1.5976 + 0.070566*y*y)) and, in both of its
\* branches, phi = -log10(e/(1+e)) = log10(1 + exp(g(y))) with
\* g(y) = y*(1.5976 + 0.070566*y*y), strictly increasing.  So
\* phi < threshold iff y < c, c the root of g(c) = ln(10^threshold - 1);
\* c is positive for every threshold above log10(2).  CritSq1000 is
\* floor(1000 * c * c): c = 1.28221... for 1.0 and c = 5.22598... for 8.0.
CritSq1000(threshold) ==
    CASE threshold = 1 -> 1644
      [] threshold = 8 -> 27310

\* p < threshold for a value p of phi:
\*   0.0 < threshold for the literal 0.0;
\*   false for NaN (a NaN deviation, or 0/0 when the floor itself is 0);
\*   true for y <= 0 (phi <= log10(2)), also y = -Inf (phi = 0);
\*   for y > 0, y*y < c*c, that is 1000*yNum^2 < CritSq1000*ySqDen, which is
\*   false for ySqDen = 0 (y = +Inf, phi = +Inf).
PhiLess(p, threshold) ==
    IF p.zero THEN 0 < threshold
    ELSE IF p.ySqDen < 0 THEN FALSE
    ELSE IF p.yNum = 0 THEN p.ySqDen > 0
    ELSE IF p.yNum < 0 THEN TRUE
    ELSE /\ p.ySqDen > 0
         /\ p.yNum * p.yNum <= (CritSq1000(threshold) * p.ySqDen - 1) \div 1000

\* New without its check of acceptableHeartbeatPause.
NewErrorSkipsPause(a) ==
    IF a.threshold <= 0 THEN "threshold must be > 0"
    ELSE IF a.maxSampleSize <= 0 THEN "maxSampleSize must be > 0"
    ELSE IF a.minStdDeviation <= 0 THEN "minStdDeviation must be > 0"
    ELSE IF a.firstHeartbeatEstimate <= 0 THEN "heartbeatInterval must be > 0"
    ELSE ""

\* The error New returns for its arguments; "" is the nil error.
NewError(a) ==
    IF a.threshold <= 0 THEN "threshold must be > 0"
    ELSE IF a.maxSampleSize <= 0 THEN "maxSampleSize must be > 0"
    ELSE IF a.minStdDeviation <= 0 THEN "minStdDeviation must be > 0"
    ELSE IF a.acceptableHeartbeatPause < 0 THEN "acceptableHeartbeatPause must be >= 0"
    ELSE IF a.firstHeartbeatEstimate <= 0 THEN "heartbeatInterval must be > 0"
    ELSE ""

\* The nil *PhiAccuralFailureDetector that New returns with an error.
NilDetector == [isNil |-> TRUE]

\* New: the detector's fields other than state, and the error.  The first
\* snapshot, &state{history: firstHeartbeat, timestamp: nil}, is heap[1].
New(a) ==
    IF NewError(a) # ""
      THEN [det |-> NilDetector, err |-> NewError(a)]
      ELSE [det |->
              [isNil                      |-> FALSE,
               threshold                  |-> a.threshold,
               maxSampleSize              |-> a.maxSampleSize,
               minStdDeviation            |-> a.minStdDeviation,
               acceptableHeartbeatPause   |-> a.acceptableHeartbeatPause,
               firstHeartbeatEstimate     |-> a.firstHeartbeatEstimate,
               eventStream                |-> a.eventStream,
               firstHeartbeat             |->
                   initHeartbeat(a.maxSampleSize, a.firstHeartbeatEstimate),
               acceptableHeartbeatPauseMS |->
                   toMillis(a.acceptableHeartbeatPause, "wrap"),
               minStdDeviationMS          |-> toMillis(a.minStdDeviation, "wrap")],
            err |-> ""]

\* &state{history: ..., timestamp: ...}.  Beside the two fields of the
\* struct, an entry of heap logs how the snapshot came to be: branch is
\* "new" (built by New), "first" (the read snapshot had no timestamp),
\* "appended" (isAvailableAt returned true) or "kept" (it returned false);
\* sent tells whether the loop iteration that built it sent a warning, and
\* warnings counts the warnings the whole Heartbeat invocation sent.
\* The program reads the two fields only (deref).
makeStateDropsTime(history, time, branch, sent, warnings) ==
    [history |-> history,
     timestamp |-> IF branch = "kept" THEN Nil ELSE time,
     branch |-> branch, sent |-> sent, warnings |-> warnings]

makeState(history, time, branch, sent, warnings) ==
    [history |-> history, timestamp |-> time, branch |-> branch,
     sent |-> sent, warnings |-> warnings]

\* A New that installs an empty history in place of the bootstrap one.
initialStateEmpty(det) ==
    makeState(newHeartbeatHistory(det.maxSampleSize), Nil, "new", FALSE, 0)

\* The snapshot New installs.
initialState(det) == makeState(det.firstHeartbeat, Nil, "new", FALSE, 0)

\* phiAt without its test for a nil timestamp.
phiAtNoNilCheck(s, timestamp, det, conv) ==
    LET n == Len(s.history.intervals)
        timeDiff == timestamp - s.timestamp
    IN  phi(n * toMillis(timeDiff, conv),
            meanNum(s.history) + n * det.acceptableHeartbeatPauseMS,
            ensureValidStdDeviation(varianceNum(s.history), n,
                                    det.minStdDeviationMS))

\* phiAt, on the snapshot s that its loadState returned.
phiAt(s, timestamp, det, conv) ==
    IF s.timestamp = Nil
      THEN PhiZero
      ELSE LET n == Len(s.history.intervals)
               timeDiff == timestamp - s.timestamp
           IN  phi(n * toMillis(timeDiff, conv),
                   meanNum(s.history) + n * det.acceptableHeartbeatPauseMS,
                   ensureValidStdDeviation(varianceNum(s.history), n,
                                           det.minStdDeviationMS))

\* isAvailableAt, on the snapshot its phiAt loaded.
isAvailableAt(s, timestamp, det, conv) ==
    PhiLess(phiAt(s, timestamp, det, conv), det.threshold)

\* ------------------------------------------------------------ the system

\* The goroutines that call Heartbeat, and those that call the queries.
Beaters == {"h1", "h2"}
Queriers == {"q1"}

\* The arguments the model constructs detectors with.  eventStream is Nil or
\* the capacity of the channel: 0 is the unbuffered channel of the example
\* program, which starts a goroutine that receives from it for ever; 1 is a
\* buffered channel that no goroutine receives from.
ArgsOf(threshold, maxSampleSize, pause, estimate, eventStream) ==
    [threshold                |-> threshold,
     maxSampleSize            |-> maxSampleSize,
     minStdDeviation          |-> TicksPerMilli,
     acceptableHeartbeatPause |-> pause,
     firstHeartbeatEstimate   |-> estimate,
     eventStream              |-> eventStream]

\* The test's detector (threshold 8.0, no pause, no event stream, an
\* estimate far above the clock's range); the example program's (an
\* unbuffered channel with a receiver); one with a pause of 3 ms and a
\* buffered channel; one that suspects after 2 ms without a heartbeat.
ValidArgs ==
    {ArgsOf(8, 3, 0, 8 * TicksPerMilli, Nil),
     ArgsOf(8, 3, 0, TicksPerMilli, 0),
     ArgsOf(8, 3, 3 * TicksPerMilli, TicksPerMilli, 1),
     ArgsOf(1, 1, 0, 1, 1),
     ArgsOf(1, 1, 0, 1, Nil)}

\* Arguments New is called with when its validation is what is checked.
AnyArgs ==
    [threshold                : ValidThresholds \cup InvalidThresholds,
     maxSampleSize            : {0, 1, 3},
     minStdDeviation          : {-1, 0, 1, TicksPerMilli},
     acceptableHeartbeatPause : {-1, 0, 3 * TicksPerMilli},
     firstHeartbeatEstimate   : {-1, 0, 1, TicksPerMilli},
     eventStream              : {Nil, 0}]

VARIABLES
    args,       \* the arguments of New
    err,        \* the error New returned ("" for nil, "pending" before the call)
    d,          \* the detector New returned: every field but state
    conv,       \* what the build's float-to-uint64 conversion does below zero
    state,      \* d.state: the installed snapshot, an index of heap
    heap,       \* every snapshot installed so far, in install order
    clock,      \* the monotonic clock, in ticks
    pc,         \* Heartbeat goroutine -> where it is in Heartbeat
    calls,      \* Heartbeat goroutine -> Heartbeat invocations started
    timestamp,  \* Heartbeat goroutine -> its local timestamp
    oldState,   \* Heartbeat goroutine -> its local oldState
    available,  \* Heartbeat goroutine -> what its isAvailableAt returned
    chan,       \* the events buffered in the channel
    rpc,        \* the receiving goroutine: "none", "recv" or "print"
    warned,     \* Heartbeat goroutine -> events it sent in this invocation
    published,  \* events sent so far, by all goroutines
    qpc,        \* query goroutine -> where it is in its query
    query,      \* query goroutine -> the query in progress
    answer,     \* query goroutine -> what its last query read and returned
    mem,        \* the backing arrays that make has allocated for histories
    hs,         \* the heartbeatHistory values built on their own, in order
    appended    \* for each of hs, every interval appended on its way from empty

vars == <<args, err, d, conv, state, heap, clock, pc, calls, timestamp,
          oldState, available, chan, rpc, warned, published,
          qpc, query, answer, mem, hs, appended>>

histVars == <<mem, hs, appended>>

detectorVars == <<args, err, d, conv>>
beatVars == <<pc, calls, timestamp, oldState, available, warned>>
sinkVars == <<chan, rpc, published>>
queryVars == <<qpc, query, answer>>

NoQuery == [kind |-> "none", time |-> 0, monitored |-> FALSE]
NoAnswer == [kind |-> "none", monitored |-> FALSE,
             history |-> newHeartbeatHistory(0), timestamp |-> Nil,
             monitoring |-> FALSE, available |-> FALSE, phi |-> PhiZero]

\* The state all specifications share before and after construction.
Idle ==
    /\ clock = 0
    /\ pc = [p \in Beaters |-> "idle"]
    /\ calls = [p \in Beaters |-> 0]
    /\ timestamp = [p \in Beaters |-> 0]
    /\ oldState = [p \in Beaters |-> 0]
    /\ available = [p \in Beaters |-> FALSE]
    /\ chan = << >>
    /\ warned = [p \in Beaters |-> 0]
    /\ published = 0
    /\ qpc = [q \in Queriers |-> "idle"]
    /\ query = [q \in Queriers |-> NoQuery]
    /\ answer = [q \in Queriers |-> NoAnswer]

\* No history is built apart from the detector's.
NoHistories ==
    /\ mem = << >>
    /\ hs = << >>
    /\ appended = << >>

\* A detector as New returns it for valid arguments, on either build.
Init ==
    /\ args \in ValidArgs
    /\ err = New(args).err
    /\ d = New(args).det
    /\ conv \in {"wrap", "saturate"}
    /\ state = 1
    /\ heap = <<initialState(d)>>
    /\ rpc = IF args.eventStream = 0 THEN "recv" ELSE "none"
    /\ Idle
    /\ NoHistories

\* A load that returns the pointer d.state held before the latest install.
loadStateStale == IF state > 1 THEN state - 1 ELSE state

\* loadState: the atomic load of d.state.
loadState == state

\* A casState that swaps without comparing.
casStateBlind(current, old) == TRUE

\* casState's comparison: the swap happens iff d.state still holds old.
casState(current, old) == current = old

\* A Heartbeat that returns when its casState returns false.
casFailedReturns == "idle"

\* A Heartbeat that tries its casState again with the same oldState.
casFailedSpins == "cas"

\* Where Heartbeat goes when casState returns false: round the loop again.
casFailed == "now"

\* What a reader gets through the pointer s: the snapshot's two fields.
deref(s) == [history |-> heap[s].history, timestamp |-> heap[s].timestamp]

\* Heartbeat's interval and intervalMS, from its locals.
interval(p) == timestamp[p] - deref(oldState[p]).timestamp
intervalMS(p) == toMillis(interval(p), conv)

\* The test with > in place of >=.
shouldWarnStrict(ms, det) ==
    ms > (det.acceptableHeartbeatPauseMS \div 2) /\ det.eventStream # Nil

\* The condition under which Heartbeat sends the interval to eventStream
\* (inside the branch where isAvailableAt returned true).
shouldWarn(ms, det) ==
    ms >= (det.acceptableHeartbeatPauseMS \div 2) /\ det.eventStream # Nil

\* The branch of Heartbeat that builds newHistory, from its locals.
branch(p) ==
    IF deref(oldState[p]).timestamp = Nil THEN "first"
    ELSE IF available[p] THEN "appended" ELSE "kept"

\* A newHistory that records the interval whatever isAvailableAt returned.
newHistoryAlwaysAppends(p) ==
    IF branch(p) = "first"
      THEN d.firstHeartbeat
      ELSE append(deref(oldState[p]).history, intervalMS(p))

\* Heartbeat's newHistory.
newHistory(p) ==
    CASE branch(p) = "first" -> d.firstHeartbeat
      [] branch(p) = "appended" ->
             append(deref(oldState[p]).history, intervalMS(p))
      [] branch(p) = "kept" -> deref(oldState[p]).history

\* Whether a send on the channel can complete now: an unbuffered channel
\* needs a goroutine blocked in receive, a buffered one a free slot.
canSend ==
    IF d.eventStream = 0 THEN rpc = "recv" ELSE Len(chan) < d.eventStream

Sum(f) == f["h1"] + f["h2"]

\* Line 157, entered by a call of Heartbeat (one of at most limit calls in
\* the run) or by the loop: timestamp := time.Now()
HeartbeatNow(p, limit) ==
    /\ \/ /\ pc[p] = "idle"
          /\ Sum(calls) < limit
          /\ calls' = [calls EXCEPT ![p] = @ + 1]
          /\ warned' = [warned EXCEPT ![p] = 0]
       \/ /\ pc[p] = "now"
          /\ UNCHANGED <<calls, warned>>
    /\ timestamp' = [timestamp EXCEPT ![p] = clock]
    /\ pc' = [pc EXCEPT ![p] = "load"]
    /\ UNCHANGED <<histVars, detectorVars, state, heap, clock, oldState, available,
                   sinkVars, queryVars>>

\* Lines 158-165: oldState := d.loadState() and the test of its timestamp.
HeartbeatLoad(p) ==
    /\ pc[p] = "load"
    /\ oldState' = [oldState EXCEPT ![p] = loadState]
    /\ available' = [available EXCEPT ![p] = FALSE]
    /\ pc' = [pc EXCEPT ![p] =
                IF deref(loadState).timestamp = Nil THEN "cas" ELSE "judge"]
    /\ UNCHANGED <<histVars, detectorVars, state, heap, clock, calls, timestamp, warned,
                   sinkVars, queryVars>>

\* Lines 168-172: d.isAvailableAt(timestamp), whose phiAt loads d.state
\* again, and the test that guards the send.
HeartbeatJudge(p) ==
    /\ pc[p] = "judge"
    /\ available' = [available EXCEPT ![p] =
                        isAvailableAt(deref(loadState), timestamp[p], d, conv)]
    /\ pc' = [pc EXCEPT ![p] =
                IF available'[p] /\ shouldWarn(intervalMS(p), d)
                  THEN "send" ELSE "cas"]
    /\ UNCHANGED <<histVars, detectorVars, state, heap, clock, calls, timestamp, oldState,
                   warned, sinkVars, queryVars>>

\* Line 174: d.eventStream <- interval, a plain channel send: it completes
\* only when the channel can take the value.
HeartbeatSend(p) ==
    /\ pc[p] = "send"
    /\ canSend
    /\ IF d.eventStream = 0
         THEN rpc' = "print" /\ chan' = chan
         ELSE rpc' = rpc /\ chan' = Append(chan, interval(p))
    /\ published' = published + 1
    /\ warned' = [warned EXCEPT ![p] = @ + 1]
    /\ pc' = [pc EXCEPT ![p] = "sent"]
    /\ UNCHANGED <<histVars, detectorVars, state, heap, clock, calls, timestamp, oldState,
                   available, queryVars>>

\* Lines 176-188: newState and d.casState(oldState, newState).
HeartbeatCas(p) ==
    /\ pc[p] \in {"cas", "sent"}
    /\ \/ /\ casState(state, oldState[p])
          /\ heap' = Append(heap, makeState(newHistory(p), timestamp[p],
                                            branch(p), pc[p] = "sent",
                                            warned[p]))
          /\ state' = Len(heap')
          /\ pc' = [pc EXCEPT ![p] = "idle"]
       \/ /\ ~casState(state, oldState[p])
          /\ pc' = [pc EXCEPT ![p] = casFailed]
          /\ UNCHANGED <<state, heap>>
    /\ UNCHANGED <<histVars, detectorVars, clock, calls, timestamp, oldState, available,
                   warned, sinkVars, queryVars>>

\* The example program's receiving goroutine, after a receive: it prints the
\* warning and goes back to receive.
ReceiverPrint ==
    /\ rpc = "print"
    /\ rpc' = "recv"
    /\ UNCHANGED <<histVars, detectorVars, state, heap, clock, beatVars, chan, published,
                   queryVars>>

\* The clock advances.
Tick ==
    /\ clock < MaxClock
    /\ clock' = clock + 1
    /\ UNCHANGED <<histVars, detectorVars, state, heap, beatVars, sinkVars, queryVars>>

QueryKinds == {"IsAvailable", "Phi", "IsMonitoring"}

\* A call of IsAvailable or Phi, which read time.Now() first, or of
\* IsMonitoring, which reads no clock.  The previous answer is dropped.
\* monitored notes whether a Heartbeat had completed when the call began.
QueryCall(q, kind) ==
    /\ qpc[q] = "idle"
    /\ err = ""
    /\ answer' = [answer EXCEPT ![q] = NoAnswer]
    /\ query' = [query EXCEPT ![q] =
                    [kind |-> kind,
                     time |-> IF kind = "IsMonitoring" THEN 0 ELSE clock,
                     monitored |-> deref(state).timestamp # Nil]]
    /\ qpc' = [qpc EXCEPT ![q] = "load"]
    /\ UNCHANGED <<histVars, detectorVars, state, heap, clock, beatVars, sinkVars>>

\* A query that takes the history from another snapshot than the timestamp.
queryResultTorn(q, s) ==
    [kind       |-> q.kind,
     monitored  |-> q.monitored,
     history    |-> heap[1].history,
     timestamp  |-> s.timestamp,
     monitoring |-> q.kind = "IsMonitoring" /\ s.timestamp # Nil,
     available  |-> /\ q.kind = "IsAvailable"
                    /\ isAvailableAt([s EXCEPT !.history = heap[1].history],
                                     q.time, d, conv),
     phi        |-> IF q.kind = "Phi"
                      THEN phiAt([s EXCEPT !.history = heap[1].history],
                                 q.time, d, conv)
                      ELSE PhiZero]

\* What a query returns, computed from the snapshot s it loaded; with the
\* result the model keeps the two fields the query read.
queryResult(q, s) ==
    [kind       |-> q.kind,
     monitored  |-> q.monitored,
     history    |-> s.history,
     timestamp  |-> s.timestamp,
     monitoring |-> q.kind = "IsMonitoring" /\ s.timestamp # Nil,
     available  |-> q.kind = "IsAvailable" /\ isAvailableAt(s, q.time, d, conv),
     phi        |-> IF q.kind = "Phi" THEN phiAt(s, q.time, d, conv) ELSE PhiZero]

\* The query's loadState and the result computed from the snapshot loaded.
QueryLoad(q) ==
    /\ qpc[q] = "load"
    /\ answer' = [answer EXCEPT ![q] = queryResult(query[q], deref(loadState))]
    /\ query' = [query EXCEPT ![q] = NoQuery]
    /\ qpc' = [qpc EXCEPT ![q] = "idle"]
    /\ UNCHANGED <<histVars, detectorVars, state, heap, clock, beatVars, sinkVars>>

\* Heartbeat goroutines with any of the event streams, the clock and the
\* receiving goroutine.
NextBeat ==
    \/ \E p \in Beaters : HeartbeatNow(p, MaxBeats)
    \/ \E p \in Beaters : HeartbeatLoad(p)
    \/ \E p \in Beaters : HeartbeatJudge(p)
    \/ \E p \in Beaters : HeartbeatSend(p)
    \/ \E p \in Beaters : HeartbeatCas(p)
    \/ ReceiverPrint
    \/ Tick

SpecBeat == Init /\ [][NextBeat]_vars

\* The stress test: a detector without an event stream, goroutines that
\* call Heartbeat and goroutines that call the queries, over and over.
InitQuery == Init /\ args.eventStream = Nil

NextQuery ==
    \/ \E p \in Beaters : HeartbeatNow(p, MaxStressBeats)
    \/ \E p \in Beaters : HeartbeatLoad(p)
    \/ \E p \in Beaters : HeartbeatJudge(p)
    \/ \E p \in Beaters : HeartbeatCas(p)
    \/ Tick
    \/ \E q \in Queriers, kind \in QueryKinds : QueryCall(q, kind)
    \/ \E q \in Queriers : QueryLoad(q)

SpecQuery == InitQuery /\ [][NextQuery]_vars

\* Heartbeat goroutines on a detector without an event stream, each
\* scheduled again and again while it has a step to take: Heartbeat takes no
\* lock and waits for nothing, so a goroutine inside it always has a step.
BeatStep(p) ==
    \/ HeartbeatNow(p, MaxStressBeats)
    \/ HeartbeatLoad(p)
    \/ HeartbeatJudge(p)
    \/ HeartbeatCas(p)

NextLive ==
    \/ \E p \in Beaters : BeatStep(p)
    \/ Tick

SpecLive ==
    /\ InitQuery
    /\ [][NextLive]_vars
    /\ \A p \in Beaters : WF_vars(BeatStep(p))

\* ------------------------------------------------- construction alone

InitNew ==
    /\ args \in AnyArgs
    /\ err = "pending"
    /\ d = NilDetector
    /\ conv = "wrap"
    /\ state = 0
    /\ heap = << >>
    /\ rpc = "none"
    /\ Idle
    /\ NoHistories

\* The call of New.
Construct ==
    /\ err = "pending"
    /\ err' = New(args).err
    /\ d' = New(args).det
    /\ IF New(args).err = ""
         THEN state' = 1 /\ heap' = <<initialState(New(args).det)>>
         ELSE state' = 0 /\ heap' = << >>
    /\ UNCHANGED <<histVars, args, conv, clock, beatVars, sinkVars, queryVars>>

\* A detector nobody sends heartbeats to: New, then queries at any time.
NextNew ==
    \/ Construct
    \/ Tick
    \/ \E q \in Queriers, kind \in QueryKinds : QueryCall(q, kind)
    \/ \E q \in Queriers : QueryLoad(q)

SpecNew == InitNew /\ [][NextNew]_vars

\* ------------------------------------------------ the history on its own

\* The intervals appended: 0, small ones, and the 2^64 - 1 that toMillis
\* yields for -1 ms on a wrapping build, whose sums overflow the word.
Samples == {0, 1, 3, Word - 1}

\* newHeartbeatHistory(maxSampleSize) for a capacity New accepts.
InitHistory ==
    /\ \E maxSampleSize \in 1 .. MaxSampleSize :
         /\ mem = newHeartbeatHistoryIn(<< >>, maxSampleSize).mem
         /\ hs = <<newHeartbeatHistoryIn(<< >>, maxSampleSize).h>>
    /\ appended = << << >> >>
    /\ args = ArgsOf(8, 3, 0, 8 * TicksPerMilli, Nil)
    /\ err = "pending"
    /\ d = NilDetector
    /\ conv = "wrap"
    /\ state = 0
    /\ heap = << >>
    /\ rpc = "none"
    /\ Idle

\* hs[i].append(sample), for any history built so far: histories are
\* persistent, and concurrent Heartbeat calls append to the same one.
HistoryAppend(i, sample) ==
    /\ Len(hs) < MaxHistories
    /\ mem' = appendIn(mem, hs[i], sample).mem
    /\ hs' = Append(hs, appendIn(mem, hs[i], sample).h)
    /\ appended' = Append(appended, Append(appended[i], sample))
    /\ UNCHANGED <<detectorVars, state, heap, clock, beatVars, sinkVars,
                   queryVars>>

NextHistory ==
    \E i \in 1 .. Len(hs), sample \in Samples : HistoryAppend(i, sample)

SpecHistory == InitHistory /\ [][NextHistory]_vars

\* ---------------------------------------------------------------- claims

\* The Heartbeat invocations that have returned.
Completed == Sum(calls) - Cardinality({p \in Beaters : pc[p] # "idle"})

\* The snapshots installed by Heartbeat, as indexes of heap.
Installs == 2 .. Len(heap)

\* C1: publishing a warning never blocks Heartbeat: no Heartbeat call is at
\* its send to the event stream while the stream cannot take the event.
C1_PublishNeverBlocks ==
    \A p \in Beaters : pc[p] = "send" => canSend

\* C2: every Heartbeat invocation publishes exactly one warning if its
\* interval (against the snapshot it replaced) is at least half the
\* acceptable pause and the resource was judged available, and none
\* otherwise; the warnings published never outnumber the invocations.
C2_WarnedOncePerHeartbeat ==
    /\ \A i \in Installs :
         heap[i].warnings =
           IF /\ heap[i].branch = "appended"
              /\ shouldWarn(toMillis(heap[i].timestamp - heap[i - 1].timestamp,
                                     conv), d)
             THEN 1 ELSE 0
    /\ published <= Sum(calls)

\* C3: no heartbeat is lost and none is deduplicated: the snapshots
\* installed are as many as the Heartbeat invocations that have returned.
C3_OneInstallPerHeartbeat ==
    Len(heap) - 1 = Completed

\* C3's case: a compare-and-swap has failed (its goroutine is about to go
\* round the loop) after two heartbeats were applied.
C3_Witness ==
    /\ \E p \in Beaters : pc[p] = "now"
    /\ Len(heap) = 3
    /\ Completed = 2

\* C4: Monitoring is terminal.  The detector starts without a timestamp;
\* every snapshot a Heartbeat installs has one; once the installed snapshot
\* has a timestamp it has one in every later state; and IsMonitoring
\* returns whether the installed snapshot has a timestamp.
C4_MonitoringIsTerminal ==
    /\ heap[state].timestamp = Nil
    /\ [][/\ heap[state].timestamp # Nil => heap'[state'].timestamp # Nil
          /\ state' # state => heap'[state'].timestamp # Nil
          /\ \A q \in Queriers :
               (qpc[q] = "load" /\ qpc'[q] = "idle"
                  /\ query[q].kind = "IsMonitoring")
               => answer'[q].monitoring = (heap[state].timestamp # Nil)]_vars

\* C4's case: IsMonitoring has returned true after a second heartbeat
\* replaced the first one's snapshot.
C4_Witness ==
    /\ Len(heap) = 3
    /\ \E q \in Queriers :
         answer[q].kind = "IsMonitoring" /\ answer[q].monitoring

\* C5: while no Heartbeat has completed, whatever the valid configuration
\* and the query time, IsMonitoring returns false, Phi returns 0.0 and
\* IsAvailable returns true.
C5_FreshDetector ==
    \A q \in Queriers :
      Len(heap) = 1 =>
        /\ answer[q].kind = "IsMonitoring" => ~answer[q].monitoring
        /\ answer[q].kind = "Phi" => answer[q].phi.zero
        /\ answer[q].kind = "IsAvailable" => answer[q].available

\* C5's case: IsAvailable answered at the latest clock reading, on a
\* detector no Heartbeat was ever called on.
C5_Witness ==
    /\ Len(heap) = 1
    /\ clock = MaxClock
    /\ \E q \in Queriers :
         /\ answer[q].kind = "IsAvailable"
         /\ answer[q].available

\* The constraints on New's arguments.
Violated(a) ==
    \/ a.threshold <= 0
    \/ a.maxSampleSize < 1
    \/ a.minStdDeviation <= 0
    \/ a.acceptableHeartbeatPause < 0
    \/ a.firstHeartbeatEstimate <= 0

\* C6: New returns an error and no detector iff a constraint on its
\* arguments is violated, and a detector and no error otherwise.
C6_NewValidates ==
    err # "pending" =>
      /\ err # "" <=> Violated(args)
      /\ d.isNil <=> Violated(args)

\* C6's case: New has rejected arguments whose only fault is a negative
\* acceptableHeartbeatPause.
C6_Witness ==
    /\ err = "acceptableHeartbeatPause must be >= 0"
    /\ d.isNil
    /\ args.acceptableHeartbeatPause < 0
    /\ ~Violated([args EXCEPT !.acceptableHeartbeatPause = 0])

\* The detector of the stress test: threshold 8.0, no pause, no event
\* stream, and an estimate of 8 ms where the clock spans MaxClock ticks.
StressArgs == ArgsOf(8, 3, 0, 8 * TicksPerMilli, Nil)

\* C7: in the stress test, every IsAvailable and every IsMonitoring called
\* after one Heartbeat has completed returns true.
C7_StressQueriesTrue ==
    \A q \in Queriers :
      (args = StressArgs /\ answer[q].monitored) =>
        /\ answer[q].kind = "IsAvailable" => answer[q].available
        /\ answer[q].kind = "IsMonitoring" => answer[q].monitoring

\* C8: a Heartbeat applied to a snapshot with a timestamp, when the
\* resource is unavailable at the heartbeat's time, installs a snapshot with
\* the history of the one it replaces and the heartbeat's time, and sends
\* no warning.
C8_UnavailableKeepsHistory ==
    [][\A p \in Beaters :
         (/\ pc[p] \in {"cas", "sent"}
          /\ pc'[p] = "idle"
          /\ heap[state].timestamp # Nil
          /\ ~isAvailableAt(deref(state), timestamp[p], d, conv))
         => /\ state' = Len(heap) + 1
            /\ heap'[state'].history = heap[state].history
            /\ heap'[state'].timestamp = timestamp[p]
            /\ pc[p] = "cas"
            /\ ~heap'[state'].sent
            /\ published' = published]_vars

\* C8's case: a heartbeat was applied while the resource was suspected
\* because of the time gone by since the previous heartbeat (no negative
\* interval is involved), on a detector with an event stream.
C8_Witness ==
    \E i \in Installs :
      /\ heap[i].branch = "kept"
      /\ heap[i].timestamp > heap[i - 1].timestamp
      /\ d.eventStream # Nil

\* C9 as stated: a warning is sent only by a Heartbeat with an event stream,
\* whose oldState has a timestamp, whose isAvailableAt returned true and
\* whose interval in milliseconds is at least half of
\* acceptableHeartbeatPause; and with a pause of 0 every heartbeat applied
\* while Monitoring and available has sent one.
C9_WarningAtHalfPause ==
    /\ \A p \in Beaters :
         pc[p] = "sent" =>
           /\ d.eventStream # Nil
           /\ heap[oldState[p]].timestamp # Nil
           /\ available[p]
           /\ 2 * TicksPerMilli
                 * toMillis(timestamp[p] - heap[oldState[p]].timestamp, conv)
                >= args.acceptableHeartbeatPause
    /\ \A i \in Installs :
         /\ heap[i].sent => heap[i].branch = "appended"
         /\ (/\ args.acceptableHeartbeatPause = 0
             /\ d.eventStream # Nil
             /\ heap[i].branch = "appended") => heap[i].sent

\* C9, amended: a warning is sent only by a Heartbeat with an event stream,
\* whose oldState has a timestamp, whose isAvailableAt returned true and
\* whose interval in whole milliseconds is at least
\* acceptableHeartbeatPauseMS/2, the half rounded down by Go's integer
\* division; and with a pause of 0 every heartbeat applied while Monitoring
\* and available has sent one.
C9_WarningConditions ==
    /\ \A p \in Beaters :
         pc[p] = "sent" =>
           /\ d.eventStream # Nil
           /\ heap[oldState[p]].timestamp # Nil
           /\ available[p]
           /\ toMillis(timestamp[p] - heap[oldState[p]].timestamp, conv)
                >= d.acceptableHeartbeatPauseMS \div 2
    /\ \A i \in Installs :
         /\ heap[i].sent => heap[i].branch = "appended"
         /\ (/\ args.acceptableHeartbeatPause = 0
             /\ d.eventStream # Nil
             /\ heap[i].branch = "appended") => heap[i].sent

\* C9's case: with a pause of 3 ms (the bound is 1 ms) a heartbeat that
\* came 1 ms after the previous one was applied and had sent a warning.
C9_Witness ==
    \E i \in Installs :
      /\ heap[i].sent
      /\ d.acceptableHeartbeatPauseMS = 3
      /\ heap[i].timestamp - heap[i - 1].timestamp = TicksPerMilli

\* C10: a query changes neither d.state nor any snapshot, and the history
\* and the timestamp it computes from are those of one snapshot, the one
\* installed when it loads d.state.
C10_QueriesReadOneSnapshot ==
    [][\A q \in Queriers :
         qpc'[q] # qpc[q] =>
           /\ state' = state
           /\ heap' = heap
           /\ qpc[q] = "load" =>
                /\ answer'[q].history = heap[state].history
                /\ answer'[q].timestamp = heap[state].timestamp]_vars

\* C10's case: a query has answered from a snapshot with a timestamp that a
\* later Heartbeat has replaced since.
C10_Witness ==
    \E q \in Queriers :
      /\ answer[q].kind = "Phi"
      /\ answer[q].timestamp # Nil
      /\ Len(heap) = 3
      /\ answer[q].timestamp # heap[state].timestamp

\* The history Heartbeat is to install at time now over the snapshot prev.
nextHistory(prev, now) ==
    IF prev.timestamp = Nil THEN d.firstHeartbeat
    ELSE IF isAvailableAt(prev, now, d, conv)
      THEN append(prev.history, toMillis(now - prev.timestamp, conv))
      ELSE prev.history

\* C11: every snapshot installed is the function of its predecessor in
\* install order and of the installing Heartbeat's clock reading: the
\* bootstrap history over a snapshot without a timestamp, the predecessor's
\* history with the interval appended if the predecessor makes the resource
\* available at that reading, the predecessor's history otherwise, and the
\* reading as timestamp; the judgement of the Heartbeat whose compare-and-swap
\* succeeds was made against the snapshot the swap replaces.
C11_InstallFollowsPredecessor ==
    [][\A p \in Beaters :
         (pc[p] \in {"cas", "sent"} /\ pc'[p] = "idle") =>
           LET prev == deref(Len(heap))
           IN  /\ heap' = Append(heap, heap'[Len(heap) + 1])
               /\ state' = Len(heap) + 1
               /\ heap'[state'].timestamp = timestamp[p]
               /\ heap'[state'].history = nextHistory(prev, timestamp[p])
               /\ prev.timestamp # Nil =>
                    available[p] = isAvailableAt(prev, timestamp[p], d, conv)]_vars

\* C11's case: a Heartbeat's isAvailableAt loaded another snapshot than its
\* oldState, one installed in between, and judged otherwise than it would
\* have against oldState.
C11_Witness ==
    \E p \in Beaters :
      /\ pc[p] \in {"cas", "sent"}
      /\ state # oldState[p]
      /\ heap[oldState[p]].timestamp # Nil
      /\ available[p]
           # isAvailableAt(deref(oldState[p]), timestamp[p], d, conv)

\* C12: of the Heartbeat invocations that read the same snapshot, the
\* compare-and-swap of one succeeds and installs its snapshot; after it the
\* compare-and-swap of every other one fails, installs nothing and sends its
\* invocation round the loop, where it reads the snapshot installed by then.
C12_OneWinnerPerSnapshot ==
    [][\A p \in Beaters :
         /\ (pc[p] \in {"cas", "sent"} /\ pc'[p] # pc[p]) =>
              IF state = oldState[p]
                THEN /\ Len(heap') = Len(heap) + 1
                     /\ state' = Len(heap')
                     /\ pc'[p] = "idle"
                     /\ \A r \in Beaters \ {p} :
                          (oldState[r] = oldState[p]
                             /\ pc[r] \in {"judge", "send", "cas", "sent"})
                          => ~casState(state', oldState'[r])
                ELSE /\ heap' = heap
                     /\ state' = state
                     /\ pc'[p] = "now"
         /\ (pc[p] = "load" /\ pc'[p] # "load") => oldState'[p] = state
         /\ state' # state => state' > state]_vars

\* C12's case: two invocations had read the same snapshot, one with a
\* timestamp; one installed its successor and returned, the other's
\* compare-and-swap has failed.
C12_Witness ==
    \E p \in Beaters, r \in Beaters :
      /\ p # r
      /\ pc[p] = "now"
      /\ pc[r] = "idle"
      /\ oldState[r] = oldState[p]
      /\ heap[oldState[p]].timestamp # Nil
      /\ state = oldState[p] + 1

\* C13: without an event stream and with finitely many invocations, a
\* compare-and-swap fails only when a snapshot was installed after the
\* invocation read its oldState, and every Heartbeat invocation returns.
C13_HeartbeatReturns ==
    /\ [][\A p \in Beaters :
            (pc[p] = "cas" /\ pc'[p] # "cas" /\ pc'[p] # "idle")
            => state > oldState[p]]_vars
    /\ \A p \in Beaters : (pc[p] # "idle") ~> (pc[p] = "idle")

\* C13's case: a compare-and-swap has failed, every other goroutine has
\* returned and no invocation is left to start.
C13_Witness ==
    \E p \in Beaters :
      /\ pc[p] = "now"
      /\ state > oldState[p]
      /\ \A r \in Beaters \ {p} : pc[r] = "idle"
      /\ Sum(calls) = MaxStressBeats

\* C14: with any configuration New accepts, the history of the installed
\* snapshot holds at least 2 samples.
C14_AtLeastTwoSamples ==
    err = "" => Len(heap[state].history.intervals) >= 2

RECURSIVE SumOf(_)
SumOf(seq) == IF seq = << >> THEN 0 ELSE Head(seq) + SumOf(Tail(seq))

RECURSIVE SumOfSquares(_)
SumOfSquares(seq) ==
    IF seq = << >> THEN 0
    ELSE Head(seq) * Head(seq) + SumOfSquares(Tail(seq))

\* The last n elements of seq.
LastOf(seq, n) == SubSeq(seq, Len(seq) - n + 1, Len(seq))

Min(a, b) == IF a <= b THEN a ELSE b

\* C15: in every history built by appends from newHeartbeatHistory,
\* intervalSum is the sum of the retained samples and squaredIntervalSum the
\* sum of their squares, in the arithmetic of the machine word; the samples
\* are at most maxSampleSize, and maxSampleSize is that of the empty history.
C15_SumsMatchSamples ==
    \A i \in 1 .. Len(hs) :
      LET v == load(mem, hs[i])
      IN  /\ v.intervalSum = SumOf(v.intervals) % Word
          /\ v.squaredIntervalSum = SumOfSquares(v.intervals) % Word
          /\ Len(v.intervals) <= v.maxSampleSize
          /\ v.maxSampleSize = hs[1].maxSampleSize

\* C15's case: a history that has evicted a sample and whose squares add up
\* to more than the machine word holds.
C15_Witness ==
    \E i \in 1 .. Len(hs) :
      /\ Len(appended[i]) > hs[i].maxSampleSize
      /\ Len(load(mem, hs[i]).intervals) >= 2
      /\ SumOfSquares(load(mem, hs[i]).intervals) >= Word

\* C16: after n appends the retained samples are the last
\* min(n, maxSampleSize) appended, in the order appended, and the running
\* sums are those of these samples: what an append at capacity drops is the
\* oldest sample, with its value and its square.
C16_EvictionIsFIFO ==
    \A i \in 1 .. Len(hs) :
      LET v    == load(mem, hs[i])
          kept == LastOf(appended[i],
                         Min(Len(appended[i]), hs[i].maxSampleSize))
      IN  /\ v.intervals = kept
          /\ v.intervalSum = SumOf(kept) % Word
          /\ v.squaredIntervalSum = SumOfSquares(kept) % Word

\* C16's case: a history of capacity 2 or more that has evicted twice and
\* whose oldest retained sample differs from the one after it.
C16_Witness ==
    \E i \in 1 .. Len(hs) :
      /\ hs[i].maxSampleSize >= 2
      /\ Len(appended[i]) >= hs[i].maxSampleSize + 2
      /\ load(mem, hs[i]).intervals[1] # load(mem, hs[i]).intervals[2]

\* C17: a snapshot without a timestamp holds the bootstrap history built at
\* construction, and no interval is appended over a snapshot without a
\* timestamp: the Heartbeat that replaces one installs the bootstrap history.
C17_NoTimestampMeansBootstrap ==
    /\ \A i \in 1 .. Len(heap) :
         heap[i].timestamp = Nil =>
           heap[i].history
             = initHeartbeat(args.maxSampleSize, args.firstHeartbeatEstimate)
    /\ \A i \in Installs :
         heap[i - 1].timestamp = Nil =>
           heap[i].history = heap[i - 1].history

\* C17's case: the first heartbeat was applied, after the clock advanced,
\* over the snapshot without a timestamp, and a later one appended to it.
C17_Witness ==
    /\ Len(heap) >= 3
    /\ heap[1].timestamp = Nil
    /\ heap[2].timestamp > 0
    /\ heap[3].branch = "appended"

\* C18: the bootstrap history holds the two samples estimate - estimate/4
\* and estimate + estimate/4 in whole milliseconds, its mean is the estimate
\* in milliseconds and its variance is above 0.
C18_BootstrapSpread ==
    err = "" =>
      LET ms == toMillis(args.firstHeartbeatEstimate, conv)
          h  == d.firstHeartbeat
      IN  /\ h.intervals = <<ms - ms \div 4, ms + ms \div 4>>
          /\ meanNum(h) = Len(h.intervals) * ms
          /\ varianceNum(h) > 0

\* C19: append returns a new history and changes no history there is: the
\* fields, the samples and the sums of every history built so far, the
\* receiver's among them, are after an append what they were before it.
C19_AppendCopiesOnWrite ==
    [][\A i \in 1 .. Len(hs) :
         /\ hs'[i] = hs[i]
         /\ load(mem', hs'[i]) = load(mem, hs[i])]_vars

\* The same of the detector: no step rewrites a snapshot that was installed,
\* the detector's fields or the arguments it was built from.
SnapshotsAreImmutable ==
    [][/\ d' = d
       /\ args' = args
       /\ \A i \in 1 .. Len(heap) : heap'[i] = heap[i]]_vars

\* C19's case: two histories were derived from the same receiver, below its
\* capacity, by appending different intervals.
C19_Witness ==
    \E j \in 1 .. Len(hs), k \in 1 .. Len(hs) :
      /\ Len(appended[j]) >= 2
      /\ Len(appended[j]) = Len(appended[k])
      /\ Len(appended[j]) <= hs[j].maxSampleSize
      /\ SubSeq(appended[j], 1, Len(appended[j]) - 1)
           = SubSeq(appended[k], 1, Len(appended[k]) - 1)
      /\ appended[j][Len(appended[j])] # appended[k][Len(appended[k])]

\* C20: the timestamps of successively installed snapshots never decrease,
\* and the time a query is about to subtract the installed timestamp from is
\* not before it.
C20_TimeNeverRunsBack ==
    /\ \A i \in Installs :
         heap[i - 1].timestamp # Nil =>
           heap[i].timestamp >= heap[i - 1].timestamp
    /\ \A q \in Queriers :
         (/\ qpc[q] = "load"
          /\ query[q].kind # "IsMonitoring"
          /\ heap[state].timestamp # Nil)
         => query[q].time >= heap[state].timestamp

====
